---- MODULE Spec2Model ----
(***************************************************************************)
(* A model of file2qr (src/main.go): main's pipeline                       *)
(*   flags -> read input -> Base64 -> recovery level -> qrcode.New ->      *)
(*   (WriteFile | displayImageInTerminal) -> statistics                    *)
(* and the loop of displayImageInTerminal, one action per source step.     *)
(*                                                                         *)
(* Text is a sequence of one-character strings; a byte is a number in      *)
(* 0..255. Standard output and standard error are the sequences of the     *)
(* writes made to them: a string per fmt.Print call on stdout, a record    *)
(* [fmt, arg] per fmt.Fprintf call on stderr.                              *)
(* The go-qrcode library is outside the repository: qrcode.New, WriteFile  *)
(* and Image are calls whose outcome is chosen nondeterministically.       *)
(***************************************************************************)
EXTENDS Integers, Sequences, FiniteSets

VARIABLES
    pc,          \* main's position
    versionFlag, \* -v
    helpFlag,    \* -h
    outputFile,  \* -o ("" when not given)
    base64Flag,  \* -b
    recovery,    \* -r, a sequence of characters
    hasFileArg,  \* flag.NArg() > 0
    stdoutStat,  \* what os.Stdout.Stat() answers: "chardev", "other" or "error"
    stderrTTY,   \* whether standard error is attached to a terminal
    inputData,   \* the bytes read
    qrContent,   \* the payload handed to qrcode.New
    recLevel,    \* the qrcode.RecoveryLevel chosen
    calls,       \* the library and sink calls made so far, in order
    file,        \* the output file: "absent" or "png"
    stdout,      \* the writes to standard output
    stderr,      \* the writes to standard error
    exitCode,    \* the process's exit status
    img,         \* the image handed to displayImageInTerminal
    y,           \* displayImageInTerminal's row counter
    reads        \* the img.At(x, y) calls made so far, in order

vars == <<pc, versionFlag, helpFlag, outputFile, base64Flag, recovery, hasFileArg,
          stdoutStat, stderrTTY, inputData, qrContent, recLevel, calls, file,
          stdout, stderr, exitCode, img, y, reads>>

flagVars == <<versionFlag, helpFlag, outputFile, base64Flag, recovery, hasFileArg>>
envVars == <<stdoutStat, stderrTTY>>
renderVars == <<img, y, reads>>

(***************************************************************************)
(* Bounds of the model.                                                    *)
(***************************************************************************)
\* Longest input enumerated byte by byte.
MaxLen == 4
\* Largest bitmap width and height enumerated pixel by pixel.
MaxW == 2
MaxH == 4

(***************************************************************************)
(* Program constants.                                                      *)
(***************************************************************************)
\* The payload length above which the capacity hint is printed.
HintThreshold == 2900

Min(a, b) == IF a < b THEN a ELSE b

(***************************************************************************)
(* encoding/base64's StdEncoding, as main uses it.                         *)
(***************************************************************************)
encodeStd ==
    <<"A","B","C","D","E","F","G","H","I","J","K","L","M","N","O","P",
      "Q","R","S","T","U","V","W","X","Y","Z","a","b","c","d","e","f",
      "g","h","i","j","k","l","m","n","o","p","q","r","s","t","u","v",
      "w","x","y","z","0","1","2","3","4","5","6","7","8","9","+","/">>

StdPadding == "="

\* Length of the padded encoding of n bytes.
EncodedLen(n) == ((n + 2) \div 3) * 4

\* The k-th (0..3) 6-bit digit of a 24-bit value, most significant first.
Sextet(val, k) ==
    CASE k = 0 -> (val \div 262144) % 64
      [] k = 1 -> (val \div 4096) % 64
      [] k = 2 -> (val \div 64) % 64
      [] OTHER -> val % 64

\* Character i of the encoding of src, which holds n bytes: the k-th digit
\* of the g-th 3-byte group (bytes past the end count as 0); a group of r
\* real bytes gives r + 1 digits, then padding when padded.
EncodedChar(src, n, i, padded) ==
    LET g == (i - 1) \div 4
        k == (i - 1) % 4
        r == Min(3, n - 3 * g)
        b1 == src[3 * g + 1]
        b2 == IF 3 * g + 2 <= n THEN src[3 * g + 2] ELSE 0
        b3 == IF 3 * g + 3 <= n THEN src[3 * g + 3] ELSE 0
    IN IF k <= r \/ ~padded
       THEN encodeStd[Sextet(b1 * 65536 + b2 * 256 + b3, k) + 1]
       ELSE StdPadding

\* A variant that leaves the padding out (base64.RawStdEncoding).
EncodeToStringRaw(src) ==
    LET n == Len(src)
        outLen == (n \div 3) * 4 + (IF n % 3 = 0 THEN 0 ELSE (n % 3) + 1)
    IN [i \in 1..outLen |-> EncodedChar(src, n, i, FALSE)]

\* base64.StdEncoding.EncodeToString.
EncodeToString(src) ==
    LET n == Len(src)
    IN [i \in 1..EncodedLen(n) |-> EncodedChar(src, n, i, TRUE)]

\* The digit a character stands for, -1 when it is none.
DecodeChar(c) ==
    IF \E i \in 1..64 : encodeStd[i] = c
    THEN (CHOOSE i \in 1..64 : encodeStd[i] = c) - 1
    ELSE -1

\* The bytes of one 4-character quantum with p padding characters (0..2).
DecodeQuantum(q, p) ==
    LET d(i) == IF i <= 4 - p THEN DecodeChar(q[i]) ELSE 0
        val == d(1) * 262144 + d(2) * 4096 + d(3) * 64 + d(4)
        b == <<(val \div 65536) % 256, (val \div 256) % 256, val % 256>>
    IN SubSeq(b, 1, 3 - p)

\* Padding characters at the end of a quantum.
PadCount(q) == IF q[4] # StdPadding THEN 0 ELSE IF q[3] # StdPadding THEN 1 ELSE 2

RECURSIVE DecodeFrom(_, _)
DecodeFrom(s, g) ==
    IF 4 * g >= Len(s) THEN <<>>
    ELSE LET q == SubSeq(s, 4 * g + 1, 4 * g + 4)
         IN DecodeQuantum(q, PadCount(q)) \o DecodeFrom(s, g + 1)

\* Whether s is a well-formed padded encoding: whole quanta, digits only,
\* padding only at the end of the last quantum.
WellFormed(s) ==
    /\ Len(s) % 4 = 0
    /\ \A i \in 1..Len(s) :
          \/ DecodeChar(s[i]) >= 0
          \/ /\ s[i] = StdPadding
             /\ i > Len(s) - 2
             /\ \A j \in i..Len(s) : s[j] = StdPadding

\* base64.StdEncoding.DecodeString: the bytes, or an error.
DecodeString(s) ==
    IF WellFormed(s) THEN [ok |-> TRUE, bytes |-> DecodeFrom(s, 0)]
    ELSE [ok |-> FALSE, bytes |-> <<>>]

(***************************************************************************)
(* strings.ToLower, on the characters the model draws tokens from.         *)
(***************************************************************************)
upperLetters ==
    <<"A","B","C","D","E","F","G","H","I","J","K","L","M",
      "N","O","P","Q","R","S","T","U","V","W","X","Y","Z">>

lowerLetters ==
    <<"a","b","c","d","e","f","g","h","i","j","k","l","m",
      "n","o","p","q","r","s","t","u","v","w","x","y","z">>

\* LATIN CAPITAL LETTER I WITH DOT ABOVE, one character; unicode.ToLower
\* maps it to "i".
DottedI == "U+0130"

\* unicode.ToLower on one character.
ToLowerChar(c) ==
    IF c = DottedI THEN "i"
    ELSE IF \E i \in 1..26 : upperLetters[i] = c
         THEN lowerLetters[CHOOSE i \in 1..26 : upperLetters[i] = c]
         ELSE c

\* strings.ToLower.
ToLower(s) == [i \in 1..Len(s) |-> ToLowerChar(s[i])]

wordLow == <<"l","o","w">>
wordMedium == <<"m","e","d","i","u","m">>
wordHigh == <<"h","i","g","h">>
wordHighest == <<"h","i","g","h","e","s","t">>

\* A slip in the switch: case "highest" falling into High.
RecoveryLevelOfSlip(token) ==
    LET s == ToLower(token)
    IN CASE s = wordLow -> "Low"
         [] s = wordMedium -> "Medium"
         [] s = wordHigh -> "High"
         [] s = wordHighest -> "High"
         [] OTHER -> "Medium"

\* The switch on strings.ToLower(*recovery).
RecoveryLevelOf(token) ==
    LET s == ToLower(token)
    IN CASE s = wordLow -> "Low"
         [] s = wordMedium -> "Medium"
         [] s = wordHigh -> "High"
         [] s = wordHighest -> "Highest"
         [] OTHER -> "Medium"

(***************************************************************************)
(* Images: the bounds rectangle and each pixel's alpha (16 bits, as        *)
(* color.Color's RGBA returns it).                                         *)
(***************************************************************************)
Alphas == {0, 65535}

Bitmap(w, h, a) ==
    [minX |-> 0, minY |-> 0, maxX |-> w, maxY |-> h,
     alpha |-> [p \in (0..(w - 1)) \X (0..(h - 1)) |-> a[p]]]

\* Every bitmap of a width and a height, pixel by pixel.
BitmapsOf(w, h) ==
    {Bitmap(w, h, a) : a \in [(0..(w - 1)) \X (0..(h - 1)) -> Alphas]}

\* The bitmap of a width and a height with every pixel at alpha a.
Uniform(w, h, a) == Bitmap(w, h, [p \in (0..(w - 1)) \X (0..(h - 1)) |-> a])

\* The bitmaps of a width and a height that a run is handed: every one,
\* pixel by pixel, or the uniform ones, a barely opaque one included.
ImagesOf(w, h, kind) ==
    IF kind = "every" THEN BitmapsOf(w, h)
    ELSE {Uniform(w, h, a) : a \in Alphas \cup {1}}

NoImage == Uniform(0, 0, 0)

Dx(im) == im.maxX - im.minX
Dy(im) == im.maxY - im.minY

InBounds(im, x, yy) ==
    /\ im.minX <= x /\ x < im.maxX
    /\ im.minY <= yy /\ yy < im.maxY

\* The alpha of img.At(x, y).RGBA(); a point outside the bounds has the
\* zero colour.
At(im, x, yy) == IF InBounds(im, x, yy) THEN im.alpha[<<x, yy>>] ELSE 0

(***************************************************************************)
(* displayImageInTerminal's pieces.                                        *)
(***************************************************************************)
horizontalPadding == "  "
FullBlock == "U+2588"
UpperHalf == "U+2580"
LowerHalf == "U+2584"
Glyphs == {FullBlock, UpperHalf, LowerHalf, " "}

\* The two half blocks exchanged.
GlyphSwapped(topAlpha, bottomAlpha) ==
    IF topAlpha > 0 /\ bottomAlpha > 0 THEN FullBlock
    ELSE IF topAlpha > 0 THEN LowerHalf
    ELSE IF bottomAlpha > 0 THEN UpperHalf
    ELSE " "

\* The if/else chain on the two alphas.
Glyph(topAlpha, bottomAlpha) ==
    IF topAlpha > 0 /\ bottomAlpha > 0 THEN FullBlock
    ELSE IF topAlpha > 0 THEN UpperHalf
    ELSE IF bottomAlpha > 0 THEN LowerHalf
    ELSE " "

\* The guard on the bounds.
InvalidDimensions(im) == Dx(im) <= 0 \/ Dy(im) <= 0

\* A loop that stops one pair early.
LoopCondShort(im, yy) == yy < im.maxY - 3

\* The outer loop's condition.
LoopCond(im, yy) == yy < im.maxY - 1

\* A loop stepping by one row.
NextRowByOne(yy) == yy + 1

\* The outer loop's step.
NextRow(yy) == yy + 2

\* The writes of one pass of the outer loop.
PictureLine(im, yy) ==
    <<horizontalPadding>>
    \o [i \in 1..Dx(im) |-> Glyph(At(im, im.minX + i - 1, yy),
                                  At(im, im.minX + i - 1, yy + 1))]
    \o <<horizontalPadding, "\n">>

\* Lines printed so far: the newlines written, less the top framing one.
LinesPrinted(out) == Cardinality({i \in DOMAIN out : out[i] = "\n"}) - 1

\* The img.At calls of one pass of the outer loop, in order: top then
\* bottom for each column. line is the pass's number.
RowReads(im, yy, k) ==
    [i \in 1..(2 * Dx(im)) |->
        [x |-> im.minX + ((i - 1) \div 2), y |-> yy + ((i - 1) % 2), line |-> k]]

(***************************************************************************)
(* The messages main writes to standard error, by format string.           *)
(***************************************************************************)
MsgReadFile == "Error reading file: %v\n"
MsgReadStdin == "Error reading from stdin: %v\n"
MsgBase64 == "Data encoded as Base64 (length: %d characters)\n"
MsgGenerate == "Error generating QR code: %v\n"
MsgTooLarge == "Content size (%d bytes) might be too large for a QR code.\n"
MsgHint == "Try reducing file size or using the -b/--base64 option for binary files.\n"
MsgSave == "Error saving QR code to file: %v\n"
MsgSaved == "QR code saved to: %s\n"
MsgNotTerminal == "Error: Output is not a terminal. Use -o/--output to specify an output file.\n"
MsgInvalid == "Error: Image has invalid dimensions\n"
MsgOriginal == "Original data size: %d bytes\n"
MsgEncoded == "Base64 encoded size: %d characters\n"
MsgSize == "Data size: %d bytes\n"

ErrorMsgs == {MsgReadFile, MsgReadStdin, MsgGenerate, MsgSave, MsgNotTerminal, MsgInvalid}
HintMsgs == {MsgTooLarge, MsgHint}
DiagnosticMsgs == {MsgBase64, MsgSaved, MsgOriginal, MsgEncoded, MsgSize}

Write(f, a) == [fmt |-> f, args |-> a]

\* showUsage's writes.
UsageWrites ==
    <<Write("Usage: %s [OPTIONS] [FILE]\n", <<"file2qr">>),
      Write("Convert files to QR codes.\n\n", <<>>),
      Write("flag.PrintDefaults", <<>>),
      Write("\nIf FILE is not specified, %s reads from standard input.\n", <<"file2qr">>),
      Write("If -o/--output is not specified, displays QR code in terminal.\n", <<>>)>>

\* showVersion's writes.
VersionWrites ==
    <<"file2qr 1.0.0\n",
      "Copyright (C) 2025 file2qr contributors\n",
      "License GPLv3+: GNU GPL version 3 or later <https://gnu.org/licenses/gpl.html>.\n",
      "This is free software: you are free to change and redistribute it.\n",
      "There is NO WARRANTY, to the extent permitted by law.\n">>

StdoutFd == "stdout"
StderrFd == "stderr"

\* isTerminal: fd is not used; the answer is os.Stdout.Stat()'s.
isTerminal(fd) ==
    IF stdoutStat = "error" THEN FALSE ELSE stdoutStat = "chardev"

\* A hint given from the threshold on, not above it.
HintNeededFrom(content) == Len(content) >= HintThreshold

\* len(qrContent) > 2900.
HintNeeded(content) == Len(content) > HintThreshold

\* An output branch taken whatever -o says.
UseFileSinkAlways == TRUE

\* *outputFile != "".
UseFileSink == outputFile # ""

(***************************************************************************)
(* The inputs drawn.                                                       *)
(***************************************************************************)
ByteVals == {0, 77, 250, 255}

RECURSIVE SeqsUpTo(_, _)
SeqsUpTo(S, n) ==
    IF n = 0 THEN {<<>>}
    ELSE LET shorter == SeqsUpTo(S, n - 1)
         IN shorter \cup {Append(s, b) : s \in {t \in shorter : Len(t) = n - 1}, b \in S}

\* Every byte sequence up to MaxLen over ByteVals.
ShortInputs == SeqsUpTo(ByteVals, MaxLen)

Fill(n) == [i \in 1..n |-> 65]

\* The lengths at which the raw payload, and the Base64 one, meet the
\* threshold and pass it.
LongLengths ==
    {HintThreshold, HintThreshold + 1,
     (HintThreshold \div 4) * 3, (HintThreshold \div 4) * 3 + 1}

MainInputs == {<<>>, <<72>>, <<72, 105, 33>>} \cup {Fill(n) : n \in LongLengths}

\* The forms a letter takes in a letter-case variant of a word.
CaseForms(c) ==
    {c} \cup {upperLetters[i] : i \in {j \in 1..26 : lowerLetters[j] = c}}
        \cup (IF c = "i" THEN {DottedI} ELSE {})

\* The letter-case variants of a word: each letter in one of its forms.
RECURSIVE CaseVariants(_)
CaseVariants(w) ==
    IF w = <<>> THEN {<<>>}
    ELSE {<<c>> \o t : c \in CaseForms(Head(w)), t \in CaseVariants(Tail(w))}

Words == {wordLow, wordMedium, wordHigh, wordHighest}

\* Tokens that are no variant of any of the four words.
OtherTokens ==
    {<<>>, <<" ">>, <<"l","o">>, <<"l","o","w"," ">>, <<" ","l","o","w">>,
     <<"L","O","W","\n">>, <<"l","o","w","e","s","t">>, <<"h","i","g","h","e","r">>,
     <<"m","e","d">>, <<"M">>, <<"H">>, <<"q","u","a","r","t","i","l","e">>,
     <<"h","1","g","h">>, <<"h","i","g","h","h","i","g","h">>, <<"0">>}

AllTokens == UNION {CaseVariants(w) : w \in Words} \cup OtherTokens

MainTokens == {wordMedium, <<"H","i","g","h","e","s","t">>, <<"b","o","g","u","s">>}

(***************************************************************************)
(* main, one action per step.                                              *)
(***************************************************************************)
\* os.Exit(code).
Exit(code) == pc' = "exit" /\ exitCode' = code

\* -v: showVersion, os.Exit(0).
ShowVersion ==
    /\ pc = "flags" /\ versionFlag
    /\ stdout' = stdout \o VersionWrites
    /\ Exit(0)
    /\ UNCHANGED <<flagVars, envVars, inputData, qrContent, recLevel, calls, file,
                   stderr, renderVars>>

\* -h: showUsage, os.Exit(0).
ShowHelp ==
    /\ pc = "flags" /\ ~versionFlag /\ helpFlag
    /\ stderr' = stderr \o UsageWrites
    /\ Exit(0)
    /\ UNCHANGED <<flagVars, envVars, inputData, qrContent, recLevel, calls, file,
                   stdout, renderVars>>

\* Neither -v nor -h.
FlagsParsed ==
    /\ pc = "flags" /\ ~versionFlag /\ ~helpFlag
    /\ pc' = "read"
    /\ UNCHANGED <<flagVars, envVars, inputData, qrContent, recLevel, calls, file,
                   stdout, stderr, exitCode, renderVars>>

\* os.ReadFile or readFromStdin succeeds.
ReadInput ==
    /\ pc = "read"
    /\ \E data \in MainInputs : inputData' = data
    /\ pc' = "prepare"
    /\ UNCHANGED <<flagVars, envVars, qrContent, recLevel, calls, file,
                   stdout, stderr, exitCode, renderVars>>

\* os.ReadFile or readFromStdin fails.
ReadInputFails ==
    /\ pc = "read"
    /\ stderr' = Append(stderr, Write(IF hasFileArg THEN MsgReadFile ELSE MsgReadStdin,
                                      <<"err">>))
    /\ Exit(1)
    /\ UNCHANGED <<flagVars, envVars, inputData, qrContent, recLevel, calls, file,
                   stdout, renderVars>>

\* The payload of the bytes read, under -b and without it.
Payload(data, b64) == IF b64 THEN EncodeToString(data) ELSE data

\* Base64 encode if requested.
PrepareContent ==
    /\ pc = "prepare"
    /\ qrContent' = Payload(inputData, base64Flag)
    /\ stderr' = IF base64Flag /\ isTerminal(StderrFd)
                 THEN Append(stderr, Write(MsgBase64, <<Len(qrContent')>>))
                 ELSE stderr
    /\ pc' = "recovery"
    /\ UNCHANGED <<flagVars, envVars, inputData, recLevel, calls, file,
                   stdout, exitCode, renderVars>>

\* Determine recovery level.
SelectRecovery ==
    /\ pc = "recovery"
    /\ recLevel' = RecoveryLevelOf(recovery)
    /\ pc' = "generate"
    /\ UNCHANGED <<flagVars, envVars, inputData, qrContent, calls, file,
                   stdout, stderr, exitCode, renderVars>>

\* qrcode.New succeeds.
Generate ==
    /\ pc = "generate"
    /\ calls' = Append(calls, "qrcode.New")
    /\ pc' = "output"
    /\ UNCHANGED <<flagVars, envVars, inputData, qrContent, recLevel, file,
                   stdout, stderr, exitCode, renderVars>>

\* The writes of the branch taken when qrcode.New fails.
GenerateErrorWrites(content) ==
    <<Write(MsgGenerate, <<"err">>)>>
    \o (IF HintNeeded(content)
        THEN <<Write(MsgTooLarge, <<Len(content)>>), Write(MsgHint, <<>>)>>
        ELSE <<>>)

\* qrcode.New fails.
GenerateFails ==
    /\ pc = "generate"
    /\ calls' = Append(calls, "qrcode.New")
    /\ stderr' = stderr \o GenerateErrorWrites(qrContent)
    /\ Exit(1)
    /\ UNCHANGED <<flagVars, envVars, inputData, qrContent, recLevel, file,
                   stdout, renderVars>>

\* -o given, qrImage.WriteFile succeeds.
WriteOutputFile ==
    /\ pc = "output" /\ UseFileSink
    /\ calls' = Append(calls, "WriteFile")
    /\ file' = "png"
    /\ stderr' = IF isTerminal(StderrFd)
                 THEN Append(stderr, Write(MsgSaved, <<outputFile>>))
                 ELSE stderr
    /\ pc' = "stats"
    /\ UNCHANGED <<flagVars, envVars, inputData, qrContent, recLevel,
                   stdout, exitCode, renderVars>>

\* -o given, qrImage.WriteFile fails.
WriteOutputFileFails ==
    /\ pc = "output" /\ UseFileSink
    /\ calls' = Append(calls, "WriteFile")
    /\ stderr' = Append(stderr, Write(MsgSave, <<"err">>))
    /\ Exit(1)
    /\ UNCHANGED <<flagVars, envVars, inputData, qrContent, recLevel, file,
                   stdout, renderVars>>

\* No -o, stdout is not a terminal.
NotATerminal ==
    /\ pc = "output" /\ ~UseFileSink /\ ~isTerminal(StdoutFd)
    /\ stderr' = Append(stderr, Write(MsgNotTerminal, <<>>))
    /\ Exit(1)
    /\ UNCHANGED <<flagVars, envVars, inputData, qrContent, recLevel, calls, file,
                   stdout, renderVars>>

\* The guard on the bounds placed after the top framing line.
DisplayInvalidLate(kind) ==
    /\ pc = "output" /\ ~UseFileSink /\ isTerminal(StdoutFd)
    /\ \E w \in 0..MaxW, h \in 0..MaxH : \E im \in ImagesOf(w, h, kind) :
          /\ InvalidDimensions(im)
          /\ img' = im
    /\ calls' = Append(calls, "displayImageInTerminal")
    /\ stdout' = Append(stdout, "\n")
    /\ stderr' = Append(stderr, Write(MsgInvalid, <<>>))
    /\ pc' = "stats"
    /\ UNCHANGED <<flagVars, envVars, inputData, qrContent, recLevel, file,
                   exitCode, y, reads>>

\* No -o, stdout is a terminal: displayImageInTerminal is handed an image
\* whose bounds are empty; it reports that and returns.
DisplayInvalid(kind) ==
    /\ pc = "output" /\ ~UseFileSink /\ isTerminal(StdoutFd)
    /\ \E w \in 0..MaxW, h \in 0..MaxH : \E im \in ImagesOf(w, h, kind) :
          /\ InvalidDimensions(im)
          /\ img' = im
    /\ calls' = Append(calls, "displayImageInTerminal")
    /\ stderr' = Append(stderr, Write(MsgInvalid, <<>>))
    /\ pc' = "stats"
    /\ UNCHANGED <<flagVars, envVars, inputData, qrContent, recLevel, file,
                   stdout, exitCode, y, reads>>

\* No -o, stdout is a terminal: displayImageInTerminal prints the top
\* framing line and enters its loop.
DisplayBegin(kind) ==
    /\ pc = "output" /\ ~UseFileSink /\ isTerminal(StdoutFd)
    /\ \E w \in 0..MaxW, h \in 0..MaxH : \E im \in ImagesOf(w, h, kind) :
          /\ ~InvalidDimensions(im)
          /\ img' = im
          /\ y' = im.minY
    /\ calls' = Append(calls, "displayImageInTerminal")
    /\ stdout' = Append(stdout, "\n")
    /\ pc' = "render"
    /\ UNCHANGED <<flagVars, envVars, inputData, qrContent, recLevel, file,
                   stderr, exitCode, reads>>

\* One pass of the outer loop: a picture line.
RenderRow ==
    /\ pc = "render" /\ LoopCond(img, y)
    /\ reads' = reads \o RowReads(img, y, LinesPrinted(stdout))
    /\ stdout' = stdout \o PictureLine(img, y)
    /\ y' = NextRow(y)
    /\ UNCHANGED <<pc, flagVars, envVars, inputData, qrContent, recLevel, calls, file,
                   stderr, exitCode, img>>

\* The loop ends: the bottom framing line, and back to main.
RenderEnd ==
    /\ pc = "render" /\ ~LoopCond(img, y)
    /\ stdout' = Append(stdout, "\n")
    /\ pc' = "stats"
    /\ UNCHANGED <<flagVars, envVars, inputData, qrContent, recLevel, calls, file,
                   stderr, exitCode, renderVars>>

\* The statistics' writes.
StatsWrites ==
    IF base64Flag
    THEN <<Write(MsgOriginal, <<Len(inputData)>>), Write(MsgEncoded, <<Len(qrContent)>>)>>
    ELSE <<Write(MsgSize, <<Len(inputData)>>)>>

\* Print file statistics if stderr is a terminal; main returns.
PrintStats ==
    /\ pc = "stats"
    /\ stderr' = IF isTerminal(StderrFd) THEN stderr \o StatsWrites ELSE stderr
    /\ pc' = "exit"
    /\ UNCHANGED <<flagVars, envVars, inputData, qrContent, recLevel, calls, file,
                   stdout, exitCode, renderVars>>

(***************************************************************************)
(* The program from its start, once flag.Parse has accepted the command    *)
(* line.                                                                   *)
(***************************************************************************)
Fresh ==
    /\ inputData = <<>>
    /\ qrContent = <<>>
    /\ recLevel = "Medium"
    /\ calls = <<>>
    /\ file = "absent"
    /\ stdout = <<>>
    /\ stderr = <<>>
    /\ exitCode = 0
    /\ img = NoImage
    /\ y = 0
    /\ reads = <<>>

Init ==
    /\ pc = "flags"
    /\ versionFlag \in BOOLEAN
    /\ helpFlag \in BOOLEAN
    /\ outputFile \in {"", "out.png"}
    /\ base64Flag \in BOOLEAN
    /\ recovery \in MainTokens
    /\ hasFileArg \in BOOLEAN
    /\ stdoutStat \in {"chardev", "other", "error"}
    /\ stderrTTY \in BOOLEAN
    /\ Fresh

Next ==
    \/ ShowVersion
    \/ ShowHelp
    \/ FlagsParsed
    \/ ReadInput
    \/ ReadInputFails
    \/ PrepareContent
    \/ SelectRecovery
    \/ Generate
    \/ GenerateFails
    \/ WriteOutputFile
    \/ WriteOutputFileFails
    \/ NotATerminal
    \/ DisplayInvalid("uniform")
    \/ DisplayBegin("uniform")
    \/ RenderRow
    \/ RenderEnd
    \/ PrintStats

Spec == Init /\ [][Next]_vars

(***************************************************************************)
(* The Content Preparer alone: main at "Base64 encode if requested", with  *)
(* every short input.                                                      *)
(***************************************************************************)
InitPrepare ==
    /\ pc = "prepare"
    /\ versionFlag = FALSE
    /\ helpFlag = FALSE
    /\ outputFile = ""
    /\ base64Flag \in BOOLEAN
    /\ recovery = wordMedium
    /\ hasFileArg = FALSE
    /\ stdoutStat \in {"chardev", "other"}
    /\ stderrTTY = TRUE
    /\ inputData \in ShortInputs
    /\ qrContent = <<>>
    /\ recLevel = "Medium"
    /\ calls = <<>>
    /\ file = "absent"
    /\ stdout = <<>>
    /\ stderr = <<>>
    /\ exitCode = 0
    /\ img = NoImage
    /\ y = 0
    /\ reads = <<>>

NextPrepare == PrepareContent

SpecPrepare == InitPrepare /\ [][NextPrepare]_vars

(***************************************************************************)
(* The Recovery Level Selector alone: main at "Determine recovery level",  *)
(* with every token.                                                       *)
(***************************************************************************)
InitRecovery ==
    /\ pc = "recovery"
    /\ versionFlag = FALSE
    /\ helpFlag = FALSE
    /\ outputFile = ""
    /\ base64Flag = FALSE
    /\ recovery \in AllTokens
    /\ hasFileArg = FALSE
    /\ stdoutStat = "chardev"
    /\ stderrTTY = TRUE
    /\ inputData = <<72, 105>>
    /\ qrContent = <<72, 105>>
    /\ recLevel = "Medium"
    /\ calls = <<>>
    /\ file = "absent"
    /\ stdout = <<>>
    /\ stderr = <<>>
    /\ exitCode = 0
    /\ img = NoImage
    /\ y = 0
    /\ reads = <<>>

NextRecovery == SelectRecovery

SpecRecovery == InitRecovery /\ [][NextRecovery]_vars

(***************************************************************************)
(* The Terminal Renderer alone: main at "Output to terminal", stdout a     *)
(* terminal, with every bitmap.                                            *)
(***************************************************************************)
InitRender ==
    /\ pc = "output"
    /\ versionFlag = FALSE
    /\ helpFlag = FALSE
    /\ outputFile = ""
    /\ base64Flag = FALSE
    /\ recovery = wordMedium
    /\ hasFileArg = FALSE
    /\ stdoutStat = "chardev"
    /\ stderrTTY = TRUE
    /\ inputData = <<72, 105>>
    /\ qrContent = <<72, 105>>
    /\ recLevel = "Medium"
    /\ calls = <<"qrcode.New">>
    /\ file = "absent"
    /\ stdout = <<>>
    /\ stderr = <<>>
    /\ exitCode = 0
    /\ img = NoImage
    /\ y = 0
    /\ reads = <<>>

NextRender ==
    \/ DisplayInvalid("every")
    \/ DisplayBegin("every")
    \/ DisplayBegin("uniform")
    \/ RenderRow
    \/ RenderEnd

SpecRender == InitRender /\ [][NextRender]_vars

(***************************************************************************)
(* What the claims speak of.                                               *)
(***************************************************************************)
Called(name) == \E i \in DOMAIN calls : calls[i] = name
HasMsg(S) == \E i \in DOMAIN stderr : stderr[i].fmt \in S
FirstError == CHOOSE i \in DOMAIN stderr :
                 /\ stderr[i].fmt \in ErrorMsgs
                 /\ \A j \in 1..(i - 1) : stderr[j].fmt \notin ErrorMsgs
StdoutIsTerminal == stdoutStat = "chardev"
\* The output step has been taken: past -h/-v, reading and generation.
OutputTaken ==
    /\ pc \in {"render", "stats", "exit"}
    /\ Called("qrcode.New")
    /\ ~HasMsg({MsgGenerate})
\* displayImageInTerminal has returned from an image with valid bounds.
Rendered == pc \in {"stats", "exit"} /\ Called("displayImageInTerminal") /\ ~InvalidDimensions(img)
W == Dx(img)
H == Dy(img)
\* Where picture line k (from 0) starts in stdout, after the top framing line.
LineAt(k) == 1 + k * (W + 3)
Ink(a) == a > 0

(***************************************************************************)
(* C1: once the output step is taken, the sink depends on the output path  *)
(* and on whether stdout is a terminal only: a path gives the file sink    *)
(* and never the renderer; no path and a terminal gives the renderer and   *)
(* no file; no path and no terminal gives neither sink, an error message   *)
(* and exit status 1. No run uses both sinks.                              *)
(***************************************************************************)
C1_SinkSelection ==
    /\ ~(Called("WriteFile") /\ Called("displayImageInTerminal"))
    /\ OutputTaken =>
          /\ outputFile # "" =>
                /\ Called("WriteFile")
                /\ ~Called("displayImageInTerminal")
                /\ stdout = <<>>
          /\ (outputFile = "" /\ StdoutIsTerminal) =>
                /\ Called("displayImageInTerminal")
                /\ ~Called("WriteFile")
                /\ file = "absent"
          /\ (outputFile = "" /\ ~StdoutIsTerminal) =>
                /\ ~Called("WriteFile")
                /\ ~Called("displayImageInTerminal")
                /\ file = "absent" /\ stdout = <<>>
                /\ pc = "exit" /\ exitCode = 1
                /\ stderr[Len(stderr)].fmt = MsgNotTerminal

\* C1's case: -o given while stdout is a terminal; the file is written.
C1_Witness ==
    /\ pc = "exit" /\ exitCode = 0
    /\ outputFile # "" /\ StdoutIsTerminal
    /\ file = "png" /\ stdout = <<>>

(***************************************************************************)
(* C2: every failure path reports a message on standard error and ends     *)
(* the process with status 1; the process exits 0 only when nothing        *)
(* failed.                                                                  *)
(***************************************************************************)
C2_FailureExitsOne ==
    pc = "exit" => (HasMsg(ErrorMsgs) <=> exitCode = 1)

(***************************************************************************)
(* C3, as stated: when an error is reported nothing has been emitted       *)
(* before it, neither sink output nor diagnostic text.                     *)
(***************************************************************************)
C3_NothingBeforeError ==
    HasMsg(ErrorMsgs) =>
        /\ stdout = <<>>
        /\ file = "absent"
        /\ FirstError = 1

(***************************************************************************)
(* C3, amended: past -h/-v, a run that ends without an error message has   *)
(* delivered the symbol to exactly one sink; when an error is reported     *)
(* neither a terminal picture nor an output file has been emitted, and     *)
(* the only text that can stand before the error message is the Base64     *)
(* length notice, which a -b run writes before generation.                 *)
(***************************************************************************)
C3_NoSinkOutputBeforeError ==
    /\ ~(Called("WriteFile") /\ Called("displayImageInTerminal"))
    /\ (pc = "exit" /\ ~versionFlag /\ ~helpFlag /\ ~HasMsg(ErrorMsgs)) =>
          \/ file = "png" /\ stdout = <<>>
          \/ /\ file = "absent" /\ Len(stdout) >= 2
             /\ stdout[1] = "\n" /\ stdout[Len(stdout)] = "\n"
    /\ HasMsg(ErrorMsgs) =>
          /\ stdout = <<>>
          /\ file = "absent"
          /\ FirstError <= 2
          /\ \A j \in 1..(FirstError - 1) : stderr[j].fmt = MsgBase64
          /\ FirstError = 2 =>
                /\ base64Flag
                /\ stderr[FirstError].fmt \in {MsgGenerate, MsgSave, MsgInvalid}

\* C3's case: -b, generation fails, and the notice stands before the error.
C3_Witness ==
    /\ pc = "exit" /\ exitCode = 1
    /\ base64Flag
    /\ Len(stderr) >= 2
    /\ stderr[1].fmt = MsgBase64
    /\ stderr[2].fmt = MsgGenerate

(***************************************************************************)
(* C4: diagnostic text (the Base64 notice, the save confirmation, the     *)
(* statistics) is written only when standard error is a terminal,          *)
(* whatever standard output is.                                            *)
(***************************************************************************)
C4_StderrDecides ==
    ~stderrTTY => ~HasMsg(DiagnosticMsgs)

(***************************************************************************)
(* C5: when generation fails the process exits 1 with qrcode.New called    *)
(* once and no sink used, and the hint is printed exactly when the         *)
(* payload handed over (the Base64 text under -b, else the raw bytes) is   *)
(* longer than 2900.                                                       *)
(***************************************************************************)
C5_CapacityError ==
    HasMsg({MsgGenerate}) =>
        /\ pc = "exit" /\ exitCode = 1
        /\ calls = <<"qrcode.New">>
        /\ file = "absent" /\ stdout = <<>>
        /\ Len(qrContent) = IF base64Flag THEN 4 * ((Len(inputData) + 2) \div 3)
                                           ELSE Len(inputData)
        /\ stderr[Len(stderr)].fmt = IF Len(qrContent) > 2900 THEN MsgHint ELSE MsgGenerate
        /\ HasMsg({MsgTooLarge}) <=> Len(qrContent) > 2900
        /\ HasMsg({MsgHint}) <=> Len(qrContent) > 2900

\* C5's case: a Base64 payload of exactly 2900 characters fails, unhinted.
C5_Witness ==
    /\ pc = "exit" /\ exitCode = 1
    /\ base64Flag
    /\ Len(qrContent) = 2900
    /\ HasMsg({MsgGenerate}) /\ ~HasMsg(HintMsgs)

(***************************************************************************)
(* C6, as stated: a bitmap of height H and width W (both at least 1) is    *)
(* rendered as floor((H-1)/2) picture lines between the two framing        *)
(* lines.                                                                  *)
(***************************************************************************)
C6_LineCountAsStated ==
    Rendered => LinesPrinted(stdout) - 1 = (H - 1) \div 2

(***************************************************************************)
(* C6, amended: a bitmap of height H and width W (both at least 1) is      *)
(* rendered as floor(H/2) picture lines between the leading and the        *)
(* trailing blank line, and each picture line is two spaces, W glyphs,     *)
(* two spaces and a newline.                                               *)
(***************************************************************************)
C6_LineCount ==
    Rendered =>
        /\ Len(stdout) = 2 + (H \div 2) * (W + 3)
        /\ stdout[1] = "\n"
        /\ stdout[Len(stdout)] = "\n"
        /\ LinesPrinted(stdout) - 1 = H \div 2
        /\ \A k \in 0..((H \div 2) - 1) :
              /\ stdout[LineAt(k) + 1] = "  "
              /\ \A x \in 1..W : stdout[LineAt(k) + 1 + x] \in Glyphs
              /\ stdout[LineAt(k) + W + 2] = "  "
              /\ stdout[LineAt(k) + W + 3] = "\n"

\* C6's case: an even height, where floor(H/2) and floor((H-1)/2) differ.
C6_Witness ==
    /\ Rendered /\ pc = "stats"
    /\ H = 4 /\ W = 2
    /\ LinesPrinted(stdout) - 1 = 2

(***************************************************************************)
(* C7: the glyph at column x of picture line k is fixed by whether the     *)
(* pixels (x, 2k) and (x, 2k+1) are ink (alpha > 0): both, the full        *)
(* block; the top only, the upper half block; the bottom only, the lower   *)
(* half block; neither, a space. So a bitmap with no ink renders as       *)
(* spaces only and one that is all ink as full blocks only.                *)
(***************************************************************************)
C7_GlyphChoice ==
    (pc \in {"render", "stats"} /\ Called("displayImageInTerminal") /\ ~InvalidDimensions(img)) =>
        /\ \A k \in 0..((LinesPrinted(stdout) - (IF pc = "stats" THEN 1 ELSE 0)) - 1) :
              \A x \in 0..(W - 1) :
                 LET top == Ink(img.alpha[<<x, 2 * k>>])
                     bottom == Ink(img.alpha[<<x, 2 * k + 1>>])
                     g == stdout[LineAt(k) + 2 + x]
                 IN /\ (top /\ bottom) => g = "U+2588"
                    /\ (top /\ ~bottom) => g = "U+2580"
                    /\ (~top /\ bottom) => g = "U+2584"
                    /\ (~top /\ ~bottom) => g = " "
        /\ (\A p \in DOMAIN img.alpha : img.alpha[p] = 0) =>
              \A i \in DOMAIN stdout : stdout[i] \in {" ", "  ", "\n"}
        /\ (\A p \in DOMAIN img.alpha : img.alpha[p] > 0) =>
              \A i \in DOMAIN stdout : stdout[i] \in {"U+2588", "  ", "\n"}

\* C7's case: a rendered picture with both half blocks in it.
C7_Witness ==
    /\ Rendered /\ pc = "stats"
    /\ \E i \in DOMAIN stdout : stdout[i] = "U+2580"
    /\ \E i \in DOMAIN stdout : stdout[i] = "U+2584"
    /\ \E i \in DOMAIN stdout : stdout[i] = "U+2588"

(***************************************************************************)
(* C8: every letter-case variant of low, medium, high, highest selects     *)
(* Low, Medium, High, Highest; every other token, the empty one and        *)
(* those with white space around them included, selects Medium; no token   *)
(* raises an error or stops the run.                                       *)
(***************************************************************************)
C8_RecoveryLevel ==
    /\ pc = "recovery" => ENABLED SelectRecovery
    /\ pc = "generate" =>
          /\ recLevel = (IF recovery \in CaseVariants(wordLow) THEN "Low"
                         ELSE IF recovery \in CaseVariants(wordMedium) THEN "Medium"
                         ELSE IF recovery \in CaseVariants(wordHigh) THEN "High"
                         ELSE IF recovery \in CaseVariants(wordHighest) THEN "Highest"
                         ELSE "Medium")
          /\ stderr = <<>>
          /\ exitCode = 0

\* C8's case: a mixed-case "highest" has been mapped.
C8_Witness ==
    /\ pc = "generate"
    /\ recovery = <<"H","i","G","h","E","s","T">>
    /\ recLevel = "Highest"

(***************************************************************************)
(* C9: with -b the payload is the padded standard-alphabet Base64 text of  *)
(* the input: 4*ceil(len/3) characters that decode back to the input;      *)
(* without -b the payload is the input unchanged.                          *)
(***************************************************************************)
C9_Base64RoundTrip ==
    pc = "recovery" =>
        IF base64Flag
        THEN /\ Len(qrContent) = 4 * ((Len(inputData) + 2) \div 3)
             /\ \A i \in 1..Len(qrContent) :
                   \/ DecodeChar(qrContent[i]) >= 0
                   \/ /\ qrContent[i] = "="
                      /\ i > Len(qrContent) - ((3 - (Len(inputData) % 3)) % 3)
             /\ \A i \in 1..Len(qrContent) :
                   i > Len(qrContent) - ((3 - (Len(inputData) % 3)) % 3) => qrContent[i] = "="
             /\ DecodeString(qrContent).ok
             /\ DecodeString(qrContent).bytes = inputData
             /\ inputData = <<77>> => qrContent = <<"T", "Q", "=", "=">>
             /\ inputData = <<77, 250>> => qrContent = <<"T", "f", "o", "=">>
             /\ inputData = <<255, 255, 255>> => qrContent = <<"/", "/", "/", "/">>
        ELSE qrContent = inputData

\* C9's case: four bytes, a length 3 does not divide, encoded with padding.
C9_Witness ==
    /\ pc = "recovery" /\ base64Flag
    /\ Len(inputData) = 4
    /\ Len(qrContent) = 8
    /\ qrContent[8] = "="

(***************************************************************************)
(* C10: a pixel row is left unread only when the height is odd, and then   *)
(* it is the last row; every row below 2*floor(H/2) is read by exactly     *)
(* one picture line, rows 2k and 2k+1 by line k, each pixel once, and no   *)
(* pixel outside the bounds is read.                                       *)
(***************************************************************************)
C10_RowsRead ==
    /\ \A i \in DOMAIN reads :
          /\ InBounds(img, reads[i].x, reads[i].y)
          /\ reads[i].line = reads[i].y \div 2
          /\ \A j \in DOMAIN reads :
                (reads[j].x = reads[i].x /\ reads[j].y = reads[i].y) => j = i
    /\ Rendered =>
          /\ \A x \in 0..(W - 1), r \in 0..(2 * (H \div 2) - 1) :
                \E i \in DOMAIN reads : reads[i].x = x /\ reads[i].y = r
          /\ LET unread == {r \in 0..(H - 1) : \A i \in DOMAIN reads : reads[i].y # r}
             IN unread = IF H % 2 = 1 THEN {H - 1} ELSE {}

\* C10's case: height 3; rows 0 and 1 are read and row 2 is not.
C10_Witness ==
    /\ Rendered /\ pc = "stats"
    /\ H = 3
    /\ \E i \in DOMAIN reads : reads[i].y = 1
    /\ \A i \in DOMAIN reads : reads[i].y # 2

====
